---- MODULE Spec2Model ----
(***************************************************************************)
(* Connect 4: the board engine and the turn loop of Connect4Game           *)
(* (connect4_game.py).  The grid is board[row][col], row 0 at the top and  *)
(* row ROWS-1 at the bottom, as in the source.                             *)
(***************************************************************************)
EXTENDS Integers, Sequences, FiniteSets, TLC

VARIABLES mode, board, current_player_index, game_over, winner, ret, iteration

vars == <<mode, board, current_player_index, game_over, winner, ret, iteration>>

(***************************************************************************)
(* Program constants.                                                      *)
(***************************************************************************)
ROWS == 6
COLS == 7
\* a run of this many cells wins (count >= 4, offsets 1..3)
WIN == 4
\* the column get_ai_move returns when the provider raises
AI_FALLBACK == 3

\* the empty cell "  ", Python's None, and the value of ret before any call;
\* iteration is the parity of the number of iterations the loop of play() has
\* run, followed only where the loop is checked for termination
Empty == "  "
None == "None"
NoCall == "-"
True == "True"
False == "False"

(***************************************************************************)
(* Bounds of the exploration.                                              *)
(***************************************************************************)
\* the turn loop is explored on boards of at most MaxDrops pieces ...
MaxDrops == 5
\* ... direct engine calls on boards of at most MaxEngineDrops pieces ...
MaxEngineDrops == 4
\* ... the queries on boards of at most MaxQueryDrops pieces ...
MaxQueryDrops == 3
\* ... and both on boards with at most EndDrops empty cells
EndDrops == 6
\* column inputs range over -ColSlack .. COLS-1+ColSlack
ColSlack == 2

Modes == {"pvp", "ava", "pva"}

players(m) ==
    IF m = "pvp" THEN (0 :> "p1" @@ 1 :> "p2")
    ELSE IF m = "ava" THEN (0 :> "a1" @@ 1 :> "a2")
    ELSE (0 :> "p1" @@ 1 :> "a1")

PlayerSet(m) == {players(m)[i] : i \in DOMAIN players(m)}

RowIdx == 0 .. (ROWS - 1)
ColIdx == 0 .. (COLS - 1)
ColInputs == (0 - ColSlack) .. (COLS - 1 + ColSlack)

EmptyBoard == [r \in RowIdx |-> [c \in ColIdx |-> Empty]]

\* Python list indexing: a negative index counts from the end
PyIdx(i, n) == IF i < 0 THEN i + n ELSE i

(***************************************************************************)
(* The board engine.                                                       *)
(***************************************************************************)
\* is_valid_column without the test 0 <= col
is_valid_column_no_lower_bound(b, col) ==
    col < COLS /\ b[0][PyIdx(col, COLS)] = Empty

\* is_valid_column looking at the bottom row instead of the top row
is_valid_column_bottom_row(b, col) ==
    0 <= col /\ col < COLS /\ b[ROWS - 1][col] = Empty

is_valid_column(b, col) ==
    0 <= col /\ col < COLS /\ b[0][col] = Empty

\* the loop of drop_piece run as range(ROWS): the first empty row from the top
LowestEmptyRow_from_top(b, col, row) ==
    IF \E r \in RowIdx : b[r][PyIdx(col, COLS)] = Empty
    THEN CHOOSE r \in RowIdx :
            /\ b[r][PyIdx(col, COLS)] = Empty
            /\ \A q \in 0 .. (r - 1) : b[q][PyIdx(col, COLS)] # Empty
    ELSE 0 - 1

\* the loop of drop_piece stopping one row early (range(ROWS-1, 0, -1)):
\* row 0 is never tried
LowestEmptyRow_never_top(b, col, row) ==
    IF \E r \in 1 .. (ROWS - 1) : b[r][PyIdx(col, COLS)] = Empty
    THEN CHOOSE r \in 1 .. (ROWS - 1) :
            /\ b[r][PyIdx(col, COLS)] = Empty
            /\ \A q \in (r + 1) .. (ROWS - 1) : b[q][PyIdx(col, COLS)] # Empty
    ELSE 0 - 1

\* the loop of drop_piece: rows ROWS-1 down to 0, the first empty one; -1 if none
RECURSIVE LowestEmptyRow(_, _, _)
LowestEmptyRow(b, col, row) ==
    IF row < 0 THEN 0 - 1
    ELSE IF b[row][PyIdx(col, COLS)] = Empty THEN row
    ELSE LowestEmptyRow(b, col, row - 1)

\* drop_piece on a grid whose rows are one shared list ([[..] * COLS] * ROWS):
\* the assignment shows in every row
drop_piece_shared_rows(b, col, player) ==
    IF ~(0 <= col /\ col < COLS /\ b[0][col] = Empty)
    THEN [board |-> b, ret |-> False]
    ELSE [board |-> [r \in RowIdx |-> [b[r] EXCEPT ![col] = player]], ret |-> True]

\* drop_piece testing only the range of col and writing the top cell when the
\* loop finds no empty row
drop_piece_overwrites_top(b, col, player) ==
    IF ~(0 <= col /\ col < COLS) THEN [board |-> b, ret |-> False]
    ELSE LET row == LowestEmptyRow(b, col, ROWS - 1) IN
         [board |-> [b EXCEPT ![IF row < 0 THEN 0 ELSE row][col] = player],
          ret |-> True]

\* drop_piece: the grid after the call and the value returned
drop_piece(b, col, player) ==
    IF ~is_valid_column(b, col) THEN [board |-> b, ret |-> False]
    ELSE LET row == LowestEmptyRow(b, col, ROWS - 1) IN
         IF row < 0 THEN [board |-> b, ret |-> False]
         ELSE [board |-> [b EXCEPT ![row][PyIdx(col, COLS)] = player],
               ret |-> True]

\* the list of directions with the down-left diagonal written as down-right again
directions_without_down_left == <<
    <<0, 1>>,
    <<1, 0>>,
    <<1, 1>>,
    <<1, 1>> >>

\* the four directions, in the order of the list in check_winner
directions == <<
    <<0, 1>>,
    <<1, 0>>,
    <<1, 1>>,
    <<1, 0 - 1>> >>

InGrid(r, c) == 0 <= r /\ r < ROWS /\ 0 <= c /\ c < COLS

\* whether the cell at offset i from (row, col) is in the grid and the origin's owner's
Continues(b, row, col, dr, dc, i) ==
    /\ InGrid(row + dr * i, col + dc * i)
    /\ b[row + dr * i][col + dc * i] = b[row][col]

\* the inner loop: count starts at 1 and grows over the offsets i = 1 .. WIN-1,
\* with a break at the first cell that is out of the grid or not the player's
RunCount(b, row, col, dr, dc) ==
    CHOOSE count \in 1 .. WIN :
        /\ \A i \in 1 .. (count - 1) : Continues(b, row, col, dr, dc, i)
        /\ count = WIN \/ ~Continues(b, row, col, dr, dc, count)

\* the loop over the directions: the index of the first one with count >= 4, or 0
FirstDirection(b, row, col) ==
    LET hits == {d \in 1 .. Len(directions) :
                    RunCount(b, row, col, directions[d][1], directions[d][2]) >= WIN}
    IN  IF hits = {} THEN 0
        ELSE CHOOSE d \in hits : \A e \in hits : d <= e

\* the origins whose own loop over the directions returns; origin k is the cell
\* (k div COLS, k mod COLS), so that k grows in the order of the two outer loops
WinningOrigins(b) ==
    {k \in 0 .. (ROWS * COLS - 1) :
        /\ b[k \div COLS][k % COLS] # Empty
        /\ FirstDirection(b, k \div COLS, k % COLS) # 0}

\* the scan running from the last cell to the first: the last such origin
FirstOrigin_from_bottom(hits) == CHOOSE k \in hits : \A j \in hits : k >= j

\* the scan returns at the first such origin, with its owner
FirstOrigin(hits) == CHOOSE k \in hits : \A j \in hits : k <= j

check_winner(b) ==
    IF WinningOrigins(b) = {} THEN None
    ELSE b[FirstOrigin(WinningOrigins(b)) \div COLS][FirstOrigin(WinningOrigins(b)) % COLS]

\* is_board_full with any() for all()
is_board_full_any(b) == \E col \in ColIdx : b[0][col] # Empty

is_board_full(b) == \A col \in ColIdx : b[0][col] # Empty

(***************************************************************************)
(* The session and the turn loop.                                          *)
(***************************************************************************)
get_current_player(m, idx) == players(m)[idx]

\* get_current_player().startswith("a")
is_ai_turn(m, idx) == get_current_player(m, idx) \in {"a1", "a2"}

\* get_player_input re-prompts until the column is valid
get_player_input(b) == {col \in ColInputs : is_valid_column(b, col)}

\* get_ai_move: whatever column the provider returns, or the fallback when it raises
get_ai_move == ColInputs \cup {AI_FALLBACK}

\* Connect4Game.__init__
NewGame ==
    [board |-> EmptyBoard, current_player_index |-> 0, game_over |-> FALSE,
     winner |-> None, ret |-> NoCall]

\* play_turn testing for the draw before the winner
AfterDrop_draw_first(m, s, d, w) ==
    IF is_board_full(d.board)
    THEN [s EXCEPT !.board = d.board, !.ret = d.ret, !.game_over = TRUE]
    ELSE IF w # None
    THEN [s EXCEPT !.board = d.board, !.ret = d.ret,
                   !.game_over = TRUE, !.winner = w]
    ELSE [s EXCEPT !.board = d.board, !.ret = d.ret,
                   !.current_player_index =
                       (s.current_player_index + 1)
                           % Cardinality(DOMAIN players(m))]

\* play_turn switching to the next player before the winner is looked for
AfterDrop_switch_first(m, s, d, w) ==
    IF w # None
    THEN [s EXCEPT !.board = d.board, !.ret = d.ret,
                   !.game_over = TRUE, !.winner = w,
                   !.current_player_index =
                       (s.current_player_index + 1)
                           % Cardinality(DOMAIN players(m))]
    ELSE IF is_board_full(d.board)
    THEN [s EXCEPT !.board = d.board, !.ret = d.ret, !.game_over = TRUE,
                   !.current_player_index =
                       (s.current_player_index + 1)
                           % Cardinality(DOMAIN players(m))]
    ELSE [s EXCEPT !.board = d.board, !.ret = d.ret,
                   !.current_player_index =
                       (s.current_player_index + 1)
                           % Cardinality(DOMAIN players(m))]

\* play_turn after an accepted drop, w being what check_winner returned
AfterDrop(m, s, d, w) ==
    IF w # None
    THEN [s EXCEPT !.board = d.board, !.ret = d.ret,
                   !.game_over = TRUE, !.winner = w]
    ELSE IF is_board_full(d.board)
    THEN [s EXCEPT !.board = d.board, !.ret = d.ret, !.game_over = TRUE]
    ELSE [s EXCEPT !.board = d.board, !.ret = d.ret,
                   !.current_player_index =
                       (s.current_player_index + 1)
                           % Cardinality(DOMAIN players(m))]

\* play_turn switching to the next player also when the drop is rejected
DropThenCheck_switch_on_reject(m, s, d) ==
    IF d.ret # True
    THEN [s EXCEPT !.ret = d.ret,
                   !.current_player_index =
                       (s.current_player_index + 1)
                           % Cardinality(DOMAIN players(m))]
    ELSE IF check_winner(d.board) # None
    THEN [s EXCEPT !.board = d.board, !.ret = d.ret,
                   !.game_over = TRUE, !.winner = check_winner(d.board)]
    ELSE IF is_board_full(d.board)
    THEN [s EXCEPT !.board = d.board, !.ret = d.ret, !.game_over = TRUE]
    ELSE [s EXCEPT !.board = d.board, !.ret = d.ret,
                   !.current_player_index =
                       (s.current_player_index + 1)
                           % Cardinality(DOMAIN players(m))]

\* play_turn from "if not self.drop_piece(col, current_player)" on, d being
\* what drop_piece did
DropThenCheck(m, s, d) ==
    IF d.ret # True THEN [s EXCEPT !.ret = d.ret]
    ELSE AfterDrop(m, s, d, check_winner(d.board))

\* play_turn on session s with the column col the player or the AI gave
play_turn(m, s, col) ==
    DropThenCheck(m, s,
        drop_piece(s.board, col, get_current_player(m, s.current_player_index)))

Session ==
    [board |-> board, current_player_index |-> current_player_index,
     game_over |-> game_over, winner |-> winner, ret |-> ret]

SetSession(s) ==
    /\ board' = s.board
    /\ current_player_index' = s.current_player_index
    /\ game_over' = s.game_over
    /\ winner' = s.winner
    /\ ret' = s.ret

Pieces(b) == Cardinality({rc \in RowIdx \X ColIdx : b[rc[1]][rc[2]] # Empty})

(***************************************************************************)
(* Starting states.  A fresh game, and the games reached by playing the    *)
(* first ROWS*COLS - EndDrops moves of five recorded drawn games through  *)
(* play_turn, from which the turn loop runs to the end of the game.        *)
(***************************************************************************)
Scripts == {
    <<1, 6, 1, 6, 5, 4, 1, 0, 0, 1, 4, 1, 6, 2, 0, 2, 5, 1, 4, 5, 0,
      2, 3, 0, 3, 5, 2, 3, 0, 3, 2, 2, 4, 5, 6, 4, 5, 4, 6, 3, 3, 6>>,
    <<1, 2, 3, 6, 1, 5, 0, 4, 6, 1, 1, 3, 1, 3, 1, 3, 3, 0, 2, 2, 6,
      5, 2, 3, 6, 4, 5, 5, 2, 2, 4, 6, 0, 4, 5, 4, 4, 0, 6, 0, 5, 0>>,
    <<5, 5, 5, 1, 0, 5, 3, 2, 0, 3, 4, 4, 1, 3, 2, 2, 0, 1, 2, 0, 3,
      0, 5, 2, 3, 6, 2, 3, 4, 0, 6, 6, 6, 4, 1, 5, 4, 6, 1, 1, 4, 6>>,
    <<5, 3, 2, 3, 1, 5, 3, 1, 0, 1, 4, 1, 2, 5, 0, 5, 6, 6, 2, 0, 6,
      0, 4, 2, 3, 0, 3, 4, 2, 3, 2, 6, 0, 4, 1, 1, 5, 4, 4, 5, 6, 6>>,
    <<3, 6, 6, 2, 1, 4, 1, 0, 5, 3, 5, 5, 3, 1, 4, 0, 4, 0, 1, 1, 1,
      5, 5, 5, 4, 2, 2, 3, 3, 3, 6, 2, 2, 6, 6, 6, 2, 4, 0, 0, 4, 0>> }

\* the loop of play() fed the moves i .. n of a recorded game
RECURSIVE Replay(_, _, _, _, _)
Replay(m, moves, i, n, s) ==
    IF s.game_over \/ i > n THEN s
    ELSE Replay(m, moves, i + 1, n, play_turn(m, s, moves[i]))

StartSessions(m) ==
    {NewGame} \cup
    {Replay(m, moves, 1, ROWS * COLS - EndDrops, NewGame) : moves \in Scripts}

Init ==
    /\ mode \in Modes
    /\ \E s \in StartSessions(mode) :
         /\ board = s.board
         /\ current_player_index = s.current_player_index
         /\ game_over = s.game_over
         /\ winner = s.winner
         /\ ret = NoCall
         /\ iteration = 0

WithinPlayBounds ==
    \/ Pieces(board) < MaxDrops
    \/ Pieces(board) >= ROWS * COLS - EndDrops

WithinEngineBounds ==
    \/ Pieces(board) < MaxEngineDrops
    \/ Pieces(board) >= ROWS * COLS - EndDrops

(***************************************************************************)
(* Connect4Game.play: one iteration of "while not self.game_over".         *)
(***************************************************************************)
Turn(col) ==
    \E s \in {play_turn(mode, Session, col)} :
        /\ s.board # board => WithinPlayBounds
        /\ SetSession(s)
        /\ UNCHANGED <<mode, iteration>>

PlayTurnHuman ==
    /\ ~game_over
    /\ ~is_ai_turn(mode, current_player_index)
    /\ \E col \in get_player_input(board) : Turn(col)

PlayTurnAI ==
    /\ ~game_over
    /\ is_ai_turn(mode, current_player_index)
    /\ \E col \in get_ai_move : Turn(col)

Next == PlayTurnHuman \/ PlayTurnAI

Spec == Init /\ [][Next]_vars

(***************************************************************************)
(* The engine called directly: drop_piece with any column and any player.  *)
(***************************************************************************)
DropPiece(col, player) ==
    \E d \in {drop_piece(board, col, player)} :
        /\ board' = d.board
        /\ ret' = d.ret
        /\ UNCHANGED <<mode, current_player_index, game_over, winner, iteration>>

DropPieceCall ==
    \E col \in ColInputs, player \in PlayerSet(mode) :
        /\ is_valid_column(board, col) => WithinEngineBounds
        /\ DropPiece(col, player)

NextEngine == DropPieceCall

SpecEngine == Init /\ [][NextEngine]_vars

(***************************************************************************)
(* The session after the loop has ended: play() has returned and the       *)
(* caller goes on calling drop_piece on the session's board.               *)
(***************************************************************************)
LateDropPiece ==
    /\ game_over
    /\ \E col \in ColInputs, player \in PlayerSet(mode) :
        /\ is_valid_column(board, col) => WithinPlayBounds
        /\ DropPiece(col, player)

NextAfter == PlayTurnHuman \/ PlayTurnAI \/ LateDropPiece

SpecAfter == Init /\ [][NextAfter]_vars

(***************************************************************************)
(* check_winner as a function of the grid: the grids it is applied to.     *)
(* A line is four cells in a row inside the grid, given by its first cell  *)
(* and its step.  The grids are the empty grid with one line painted with  *)
(* any four cell values, and with two lines painted each with one player   *)
(* (pieces need not rest on anything).                                     *)
(***************************************************************************)
LineSteps == {<<0, 1>>, <<1, 0>>, <<1, 1>>, <<1, 0 - 1>>}

Lines ==
    {l \in (RowIdx \X ColIdx) \X LineSteps :
        InGrid(l[1][1] + l[2][1] * (WIN - 1), l[1][2] + l[2][2] * (WIN - 1))}

LineCell(l, i) == <<l[1][1] + l[2][1] * i, l[1][2] + l[2][2] * i>>

OwnsFour(b, p) ==
    \E l \in Lines :
        \A i \in 0 .. (WIN - 1) : b[LineCell(l, i)[1]][LineCell(l, i)[2]] = p

CellValues(m) == PlayerSet(m) \cup {Empty}

Paint(b, l, pat) ==
    [r \in RowIdx |-> [c \in ColIdx |->
        IF \E i \in 0 .. (WIN - 1) : LineCell(l, i) = <<r, c>>
        THEN pat[CHOOSE i \in 0 .. (WIN - 1) : LineCell(l, i) = <<r, c>>]
        ELSE b[r][c]]]

OneLineGrids(m) ==
    {Paint(EmptyBoard, l, pat) : l \in Lines, pat \in [0 .. (WIN - 1) -> CellValues(m)]}

TwoLineGrids(m) ==
    {Paint(Paint(EmptyBoard, l1, [i \in 0 .. (WIN - 1) |-> p]),
           l2, [i \in 0 .. (WIN - 1) |-> q]) :
        l1 \in Lines, l2 \in Lines, p \in PlayerSet(m), q \in PlayerSet(m)}

InitWinner ==
    /\ mode \in Modes
    /\ board \in OneLineGrids(mode) \cup TwoLineGrids(mode)
    /\ current_player_index = 0
    /\ game_over = FALSE
    /\ winner = None
    /\ ret = NoCall
    /\ iteration = 0

CheckWinnerCall ==
    /\ UNCHANGED <<mode, board, current_player_index, game_over, winner, iteration>>
    /\ ret' = check_winner(board)

NextWinner == CheckWinnerCall

SpecWinner == InitWinner /\ [][NextWinner]_vars

(***************************************************************************)
(* C1 (as stated): check_winner returns a player if and only if that       *)
(* player owns four cells in a row, and None exactly when no player does.  *)
(* It fails on a grid where both players own a line: one of them is not    *)
(* returned.                                                               *)
(***************************************************************************)
C1_ReturnsPlayerIffOwnsFour ==
    ret # NoCall =>
        /\ \A p \in PlayerSet(mode) : (ret = p) <=> OwnsFour(board, p)
        /\ (ret = None) <=> (\A p \in PlayerSet(mode) : ~OwnsFour(board, p))

(***************************************************************************)
(* C1 (amended): check_winner returns None exactly when no player owns     *)
(* four cells in a row (horizontal, vertical or either diagonal, anywhere  *)
(* in the grid), and otherwise returns a player who owns such a line; so   *)
(* three in a row with an empty, opposing or out-of-grid fourth cell gives *)
(* None, and when only one player owns a line that player is returned.     *)
(***************************************************************************)
C1_CheckWinnerFindsFour ==
    ret # NoCall =>
        /\ (ret = None) <=> (\A p \in PlayerSet(mode) : ~OwnsFour(board, p))
        /\ ret # None => (ret \in PlayerSet(mode) /\ OwnsFour(board, ret))
        /\ \A p \in PlayerSet(mode) :
             (OwnsFour(board, p) /\ \A q \in PlayerSet(mode) \ {p} : ~OwnsFour(board, q))
                 => ret = p

\* check_winner has returned a player on a grid where each player owns a line
C1_WitnessBothOwnFour ==
    /\ ret \in PlayerSet(mode)
    /\ \A p \in PlayerSet(mode) : OwnsFour(board, p)

(***************************************************************************)
(* Connect4Game.play followed to its end: every iteration of the loop is a *)
(* step (iteration changes), from the boards the recorded games leave with *)
(* EndDrops cells empty.  A human's prompt is answered in the end with a   *)
(* valid column and every call of the provider returns, so each turn that  *)
(* is due is taken in the end; which column the provider names is not      *)
(* constrained.                                                            *)
(***************************************************************************)
LoopTurn(col) ==
    \E s \in {play_turn(mode, Session, col)} :
        /\ SetSession(s)
        /\ iteration' = 1 - iteration
        /\ UNCHANGED mode

LoopTurnHuman ==
    /\ ~game_over
    /\ ~is_ai_turn(mode, current_player_index)
    /\ \E col \in get_player_input(board) : LoopTurn(col)

LoopTurnAI ==
    /\ ~game_over
    /\ is_ai_turn(mode, current_player_index)
    /\ \E col \in get_ai_move : LoopTurn(col)

InitLoop ==
    /\ Init
    /\ Pieces(board) >= ROWS * COLS - EndDrops

NextLoop == LoopTurnHuman \/ LoopTurnAI

SpecLoop ==
    /\ InitLoop
    /\ [][NextLoop]_vars
    /\ WF_vars(LoopTurnHuman)
    /\ WF_vars(LoopTurnAI)

(***************************************************************************)
(* The three queries of the engine called between drop_piece calls, with   *)
(* any column: each returns a value and assigns nothing.                   *)
(***************************************************************************)
WithinQueryBounds ==
    \/ Pieces(board) < MaxQueryDrops
    \/ Pieces(board) >= ROWS * COLS - EndDrops

DropBetweenQueries ==
    \E col \in ColInputs, player \in PlayerSet(mode) :
        /\ is_valid_column(board, col) => WithinQueryBounds
        /\ DropPiece(col, player)

\* is_valid_column answered by trying the drop and keeping the piece
IsValidColumnCall_by_trial_drop ==
    \E col \in ColInputs :
        \E d \in {drop_piece(board, col, get_current_player(mode, current_player_index))} :
            /\ board' = d.board
            /\ ret' = d.ret
            /\ UNCHANGED <<mode, current_player_index, game_over, winner, iteration>>

IsValidColumnCall ==
    \E col \in ColInputs :
        /\ ret' = IF is_valid_column(board, col) THEN True ELSE False
        /\ UNCHANGED <<mode, board, current_player_index, game_over, winner, iteration>>

IsBoardFullCall ==
    /\ ret' = IF is_board_full(board) THEN True ELSE False
    /\ UNCHANGED <<mode, board, current_player_index, game_over, winner, iteration>>

NextQueries ==
    \/ DropBetweenQueries
    \/ IsValidColumnCall
    \/ IsBoardFullCall
    \/ CheckWinnerCall

SpecQueries == Init /\ [][NextQueries]_vars

(***************************************************************************)
(* connect4_integrated.py: the human ('x') against the AI ('o') on the     *)
(* module's gameboard, whose empty cell is ' '.  In this program board is  *)
(* gameboard, winner is the win of startgame, game_over is set when its    *)
(* loop is left, current_player_index is 0 before makeamove and 1 before   *)
(* make_ai_move, and ret is the branch make_ai_move took (None after       *)
(* makeamove).  mode is "pva", whose ids convert_board_to_baml_format      *)
(* writes.                                                                 *)
(***************************************************************************)
Blank == " "
X == "x"
O == "o"

\* the three branches of make_ai_move, by what each prints
Chosen == "AI chooses column"
Alternative == "Finding alternative..."
ErrorFallback == "Error getting AI move"

gameboard == [r \in RowIdx |-> [c \in ColIdx |-> Blank]]

Discs(g) == Cardinality({rc \in RowIdx \X ColIdx : g[rc[1]][rc[2]] # Blank})

\* for i in range(5, -1, -1): if gameboard[i][col] == ' ': the row found, or -1
LowestBlankRow(g, col) ==
    IF \A i \in RowIdx : g[i][col] # Blank THEN 0 - 1
    ELSE CHOOSE i \in RowIdx :
            /\ g[i][col] = Blank
            /\ \A q \in (i + 1) .. (ROWS - 1) : g[q][col] # Blank

\* ... gameboard[i][col] = piece; break
DropDisc(g, col, piece) ==
    IF LowestBlankRow(g, col) < 0 THEN g
    ELSE [g EXCEPT ![LowestBlankRow(g, col)][col] = piece]

\* the four loops of checkwin, each the list of its tests in the order they are
\* made: <<row, column, row step, column step>> of the first of four cells
\* the horizontal loop run as range(3): no test starts in column 3
HorizontalChecks_three_starts ==
    [k \in 1 .. (ROWS * 3) |-> <<(k - 1) \div 3, (k - 1) % 3, 0, 1>>]

HorizontalChecks ==
    [k \in 1 .. (ROWS * 4) |-> <<(k - 1) \div 4, (k - 1) % 4, 0, 1>>]

DiagonalChecks ==
    [k \in 1 .. 12 |-> <<3 + ((k - 1) % 3), (k - 1) \div 3, 0 - 1, 1>>]

AntiDiagonalChecks ==
    [k \in 1 .. 12 |-> <<3 + ((k - 1) % 3), 3 + ((k - 1) \div 3), 0 - 1, 0 - 1>>]

VerticalChecks ==
    [k \in 1 .. (COLS * 3) |-> <<(k - 1) % 3, (k - 1) \div 3, 1, 0>>]

Checks == HorizontalChecks \o DiagonalChecks \o AntiDiagonalChecks \o VerticalChecks

\* a == b == c == d and a != ' '
FourEqual(g, t) ==
    /\ g[t[1]][t[2]] # Blank
    /\ \A i \in 1 .. 3 : g[t[1] + i * t[3]][t[2] + i * t[4]] = g[t[1]][t[2]]

checkwin(g) ==
    LET hits == {k \in 1 .. Len(Checks) : FourEqual(g, Checks[k])} IN
    IF hits = {} THEN None
    ELSE LET k == CHOOSE k \in hits : \A j \in hits : k <= j IN
         g[Checks[k][1]][Checks[k][2]]

convert_board_to_baml_format(g) ==
    [r \in RowIdx |-> [c \in ColIdx |->
        IF g[r][c] = X THEN "p1" ELSE IF g[r][c] = O THEN "a1" ELSE Empty]]

convert_board_from_baml_format(b) ==
    [r \in RowIdx |-> [c \in ColIdx |->
        IF b[r][c] = "p1" THEN X ELSE IF b[r][c] = "a1" THEN O ELSE Blank]]

\* makeamove asks again until the text is a number 1..7 of a column with room
makeamove_inputs(g) ==
    {n \in (1 - ColSlack) .. (COLS + ColSlack) :
        1 <= n /\ n <= 7 /\ g[0][n - 1] = Blank}

makeamove(g, player, playercolumnmove) == DropDisc(g, playercolumnmove - 1, player)

\* what b.GetAIMove does: it raises, or returns a result with a column
ProviderResults ==
    {[raises |-> TRUE, column |-> 0]} \cup
    {[raises |-> FALSE, column |-> c] : c \in ColInputs}

\* for col in range(7): if gameboard[0][col] == ' ': drop 'o' there and return
DropInFirstAvailable(g) ==
    IF \A col \in ColIdx : g[0][col] # Blank THEN g
    ELSE DropDisc(g, CHOOSE col \in ColIdx :
                        /\ g[0][col] = Blank
                        /\ \A c \in 0 .. (col - 1) : g[0][c] # Blank, O)

\* make_ai_move taking the provider's column for a 1-based one
make_ai_move_no_conversion(g, result) ==
    IF result.raises
    THEN [gameboard |-> DropInFirstAvailable(g), ret |-> ErrorFallback]
    ELSE LET playercolumnmove == result.column IN
         IF 1 <= playercolumnmove /\ playercolumnmove <= 7
               /\ g[0][playercolumnmove - 1] = Blank
         THEN [gameboard |-> DropDisc(g, playercolumnmove - 1, O), ret |-> Chosen]
         ELSE [gameboard |-> DropInFirstAvailable(g), ret |-> Alternative]

make_ai_move(g, result) ==
    IF result.raises
    THEN [gameboard |-> DropInFirstAvailable(g), ret |-> ErrorFallback]
    ELSE LET playercolumnmove == result.column + 1 IN
         IF 1 <= playercolumnmove /\ playercolumnmove <= 7
               /\ g[0][playercolumnmove - 1] = Blank
         THEN [gameboard |-> DropDisc(g, playercolumnmove - 1, O), ret |-> Chosen]
         ELSE [gameboard |-> DropInFirstAvailable(g), ret |-> Alternative]

\* startgame after a move: win = checkwin(gameboard), the two breaks, or the
\* other player's move next
AfterMove(g, w, r, idx) ==
    [board |-> g,
     winner |-> w,
     game_over |-> (w # None \/ \A col \in ColIdx : g[0][col] # Blank),
     current_player_index |->
        IF w # None \/ (\A col \in ColIdx : g[0][col] # Blank) THEN idx ELSE 1 - idx,
     ret |-> r]

human_turn(s, n) ==
    AfterMove(makeamove(s.board, X, n), checkwin(makeamove(s.board, X, n)), None, 0)

ai_turn(s, result) ==
    AfterMove(make_ai_move(s.board, result).gameboard,
              checkwin(make_ai_move(s.board, result).gameboard),
              make_ai_move(s.board, result).ret, 1)

\* startgame before its loop: win = False
NewStartgame ==
    [board |-> gameboard, current_player_index |-> 0, game_over |-> FALSE,
     winner |-> False, ret |-> NoCall]

\* startgame fed the moves i .. n of a recorded game, the human's typed as
\* column numbers and the AI's returned by the provider
RECURSIVE ReplayStartgame(_, _, _, _)
ReplayStartgame(moves, i, n, s) ==
    IF s.game_over \/ i > n THEN s
    ELSE ReplayStartgame(moves, i + 1, n,
            IF s.current_player_index = 0
            THEN human_turn(s, moves[i] + 1)
            ELSE ai_turn(s, [raises |-> FALSE, column |-> moves[i]]))

InitIntegrated ==
    /\ mode = "pva"
    /\ \E s \in {NewStartgame} \cup
                {ReplayStartgame(moves, 1, ROWS * COLS - EndDrops, NewStartgame) :
                    moves \in Scripts} :
         /\ board = s.board
         /\ current_player_index = s.current_player_index
         /\ game_over = s.game_over
         /\ winner = s.winner
         /\ ret = NoCall
         /\ iteration = 0

WithinIntegratedBounds ==
    \/ Discs(board) < MaxDrops
    \/ Discs(board) >= ROWS * COLS - EndDrops

HumanMove ==
    /\ ~game_over
    /\ current_player_index = 0
    /\ WithinIntegratedBounds
    /\ \E n \in makeamove_inputs(board) :
          \E s \in {human_turn(Session, n)} :
              /\ SetSession(s)
              /\ UNCHANGED <<mode, iteration>>

AIMoveWith(result) ==
    /\ ~game_over
    /\ current_player_index = 1
    /\ WithinIntegratedBounds
    /\ \E s \in {ai_turn(Session, result)} :
          /\ SetSession(s)
          /\ UNCHANGED <<mode, iteration>>

AIMove == \E result \in ProviderResults : AIMoveWith(result)

NextIntegrated == HumanMove \/ AIMove

SpecIntegrated == InitIntegrated /\ [][NextIntegrated]_vars

(***************************************************************************)
(* Vocabulary of the properties below.                                     *)
(***************************************************************************)
ColumnCount(b, c) == Cardinality({r \in RowIdx : b[r][c] # Empty})

Count(b, p) == Cardinality({rc \in RowIdx \X ColIdx : b[rc[1]][rc[2]] = p})

SomeoneOwnsFour(b) == \E p \in PlayerSet(mode) : OwnsFour(b, p)

(***************************************************************************)
(* C2: gravity.  After any sequence of drop_piece calls no occupied cell   *)
(* has an empty cell below it in its column.                               *)
(***************************************************************************)
C2_Gravity ==
    \A r \in 0 .. (ROWS - 2), c \in ColIdx :
        board[r][c] # Empty => board[r + 1][c] # Empty

\* a rejected call on a board with a piece resting on another piece
C2_WitnessStackedAfterReject ==
    /\ ret = False
    /\ \E c \in ColIdx : board[ROWS - 2][c] # Empty

(***************************************************************************)
(* C3: drop_piece fails closed.  For a column outside 0 .. COLS-1 and for  *)
(* a column whose top cell is occupied, is_valid_column is false and the   *)
(* call returns False and leaves the grid as it was.                       *)
(***************************************************************************)
C3_DropFailsClosed ==
    [][\A col \in ColInputs, player \in PlayerSet(mode) :
          (DropPiece(col, player) /\ (col \notin ColIdx \/ board[0][col] # Empty))
              => (~is_valid_column(board, col) /\ ret' = False /\ board' = board)]_vars

\* a call has been rejected on a board with a full column
C3_WitnessRejectedOnFullColumn ==
    /\ ret = False
    /\ \E c \in ColIdx : board[0][c] # Empty

(***************************************************************************)
(* C4: a drop_piece call on a valid column returns True and changes one    *)
(* cell only: the lowest empty cell of that column becomes the player's.   *)
(***************************************************************************)
C4_DropChangesLowestEmptyCell ==
    [][\A col \in ColInputs, player \in PlayerSet(mode) :
          (DropPiece(col, player) /\ is_valid_column(board, col))
              => /\ ret' = True
                 /\ \E r \in RowIdx :
                      /\ board[r][col] = Empty
                      /\ \A q \in (r + 1) .. (ROWS - 1) : board[q][col] # Empty
                      /\ board' = [board EXCEPT ![r][col] = player]]_vars

\* the second accepted drop, into column 0, has landed on the first
C4_WitnessSecondPieceOnFirst ==
    /\ ret = True
    /\ Pieces(board) = 2
    /\ board[ROWS - 1][0] # Empty
    /\ board[ROWS - 2][0] # Empty

(***************************************************************************)
(* C5: outcome of the turn loop.  The session is a win for p exactly when  *)
(* a four-in-a-row is on the board (p owning it), a draw exactly when      *)
(* there is none and all cells are occupied, and in progress otherwise; a  *)
(* piece that fills the last cell and completes a four-in-a-row is a win.  *)
(***************************************************************************)
C5_OutcomeMatchesBoard ==
    /\ (game_over /\ winner # None) <=> SomeoneOwnsFour(board)
    /\ winner # None => (game_over /\ winner \in PlayerSet(mode) /\ OwnsFour(board, winner))
    /\ (game_over /\ winner = None)
          <=> (~SomeoneOwnsFour(board) /\ Pieces(board) = ROWS * COLS)

\* the piece that filled the last cell completed a four-in-a-row
C5_WitnessWinOnLastCell ==
    /\ Pieces(board) = ROWS * COLS
    /\ game_over
    /\ winner # None
    /\ ret = True

(***************************************************************************)
(* C6: once game_over is set, no later step changes the grid, game_over    *)
(* or winner.                                                              *)
(***************************************************************************)
C6_TerminalRejectsMoves ==
    [][game_over => (board' = board /\ game_over' /\ winner' = winner)]_vars

(***************************************************************************)
(* C7: round-robin turns.  While the game is on, the player to move is     *)
(* players[n mod 2] for n pieces on the board; player 0 places the first   *)
(* piece; player 0 has as many pieces as player 1 or one more; a rejected  *)
(* drop leaves current_player_index alone and an accepted drop that does   *)
(* not end the game advances it by one modulo 2.  (Once the game is over   *)
(* nobody is to move: the index stays with the player who moved last.)     *)
(***************************************************************************)
C7_TurnOrder ==
    /\ ~game_over => current_player_index = Pieces(board) % 2
    /\ game_over => current_player_index = (Pieces(board) - 1) % 2
    /\ Pieces(board) = 1 => Count(board, players(mode)[0]) = 1
    /\ Count(board, players(mode)[0]) - Count(board, players(mode)[1]) \in {0, 1}

C7_TurnStep ==
    /\ board' = board => current_player_index' = current_player_index
    /\ (board' # board /\ ~game_over')
          => current_player_index' = (current_player_index + 1) % 2

C7_RoundRobin == []C7_TurnOrder /\ [][C7_TurnStep]_vars

\* the second player's drop has been rejected and it is still their turn
C7_WitnessRejectedTurn ==
    /\ ret = False
    /\ ~game_over
    /\ Pieces(board) % 2 = 1
    /\ current_player_index = 1

(***************************************************************************)
(* C8: at most one player owns a four-in-a-row, and when one does, the     *)
(* game is over and the owner is the recorded winner, the current player   *)
(* and the player who made the last drop.                                  *)
(***************************************************************************)
C8_SingleWinnerIsLastMover ==
    /\ ~(\A p \in PlayerSet(mode) : OwnsFour(board, p))
    /\ \A p \in PlayerSet(mode) :
         OwnsFour(board, p)
             => /\ game_over
                /\ winner = p
                /\ get_current_player(mode, current_player_index) = p
                /\ players(mode)[(Pieces(board) - 1) % 2] = p

\* the second player has won before the board was full
C8_WitnessSecondPlayerWins ==
    /\ game_over
    /\ winner = players(mode)[1]
    /\ Pieces(board) < ROWS * COLS

(***************************************************************************)
(* C9: is_valid_column(col) holds exactly when col is in 0 .. COLS-1 and   *)
(* the top cell of the column is empty, which on the boards drop_piece     *)
(* builds is when the column holds fewer than ROWS pieces; and a           *)
(* drop_piece call on such a column returns True.                          *)
(***************************************************************************)
C9_ValidIffRoom ==
    \A col \in ColInputs :
        /\ is_valid_column(board, col)
              <=> (col \in ColIdx /\ board[0][col] = Empty)
        /\ is_valid_column(board, col)
              <=> (col \in ColIdx /\ ColumnCount(board, col) < ROWS)

C9_ValidDropSucceeds ==
    \A col \in ColInputs, player \in PlayerSet(mode) :
        (DropPiece(col, player) /\ is_valid_column(board, col))
            => (ret' = True /\ board' # board)

C9_ValidColumn == []C9_ValidIffRoom /\ [][C9_ValidDropSucceeds]_vars

\* a drop has been accepted on a board that has both a full column and a
\* column with room
C9_WitnessFullAndOpenColumns ==
    /\ ret = True
    /\ \E c \in ColIdx : ColumnCount(board, c) = ROWS
    /\ \E c \in ColIdx : ColumnCount(board, c) \in 1 .. (ROWS - 1)

(***************************************************************************)
(* C10: is_board_full() holds exactly when the top cell of every column    *)
(* is occupied, which on the boards drop_piece builds is when all cells    *)
(* are occupied and when is_valid_column is false for every column; and a  *)
(* filled board with no four-in-a-row has check_winner() = None.           *)
(***************************************************************************)
C10_BoardFull ==
    /\ is_board_full(board) <=> (\A c \in ColIdx : board[0][c] # Empty)
    /\ is_board_full(board) <=> (Pieces(board) = ROWS * COLS)
    /\ is_board_full(board) <=> (\A col \in ColInputs : ~is_valid_column(board, col))
    /\ (Pieces(board) = ROWS * COLS /\ ~SomeoneOwnsFour(board))
          => (is_board_full(board) /\ check_winner(board) = None)

\* all cells are occupied and nobody owns a four-in-a-row
C10_WitnessFullBoardNoFour ==
    /\ Pieces(board) = ROWS * COLS
    /\ ~SomeoneOwnsFour(board)
    /\ ret = True

(***************************************************************************)
(* C11: column capacity.  Whoever the players are and whatever is dropped  *)
(* into the other columns, the k-th accepted drop into a column lands in   *)
(* row ROWS-k (k = 1 .. ROWS) and touches no other column; a column that   *)
(* holds ROWS pieces accepts no further drop: the call returns False and   *)
(* the grid is unchanged.                                                  *)
(***************************************************************************)
C11_KthDropLandsInRowRowsMinusK ==
    \A col \in ColIdx, player \in PlayerSet(mode) :
        DropPiece(col, player) =>
            IF ColumnCount(board, col) < ROWS
            THEN /\ ret' = True
                 /\ board'[ROWS - (ColumnCount(board, col) + 1)][col] = player
                 /\ ColumnCount(board', col) = ColumnCount(board, col) + 1
                 /\ \A c \in ColIdx \ {col} : \A r \in RowIdx : board'[r][c] = board[r][c]
            ELSE /\ ret' = False
                 /\ board' = board

C11_ColumnCapacity == [][C11_KthDropLandsInRowRowsMinusK]_vars

\* the sixth drop into a column has been accepted: its piece is in row 0
\* and the column below it is occupied, while another column is still empty
\* at the top
C11_WitnessSixthDropAccepted ==
    /\ ret = True
    /\ Pieces(board) = ROWS * COLS - EndDrops + 1
    /\ \E c \in ColIdx :
          /\ ColumnCount(board, c) = ROWS
          /\ \E d \in ColIdx : board[0][d] = Empty /\ ColumnCount(board, d) = ROWS - 1

(***************************************************************************)
(* C12: the queries have no side effects.  A call of is_valid_column,      *)
(* is_board_full or check_winner leaves the grid, current_player_index,    *)
(* game_over and winner as they were, so is_valid_column and is_board_full *)
(* answer the same after the call as before it; and check_winner called    *)
(* again with no drop in between returns what it returned the time before. *)
(***************************************************************************)
C12_QueryCall == IsValidColumnCall \/ IsBoardFullCall \/ CheckWinnerCall

C12_QueryLeavesStateAlone ==
    C12_QueryCall =>
        /\ UNCHANGED <<board, current_player_index, game_over, winner>>
        /\ is_board_full(board') = is_board_full(board)
        /\ \A col \in ColInputs : is_valid_column(board', col) = is_valid_column(board, col)

\* only check_winner returns a player or None: ret holds its last answer
C12_CheckWinnerAgain ==
    (/\ ret \in PlayerSet(mode) \cup {None}
     /\ ret' \in PlayerSet(mode) \cup {None}
     /\ CheckWinnerCall) => ret' = ret

C13_NewGameIsEmpty ==
    /\ Cardinality(RowIdx \X ColIdx) = 42
    /\ \A r \in RowIdx, c \in ColIdx : NewGame.board[r][c] = Empty

C13_TurnFillsAtMostOneCell ==
    LET changed == {rc \in RowIdx \X ColIdx : board'[rc[1]][rc[2]] # board[rc[1]][rc[2]]} IN
    /\ Cardinality(changed) <= 1
    /\ ret' = True => Cardinality(changed) = 1
    /\ ret' = False => changed = {}
    /\ \A rc \in changed :
          /\ board[rc[1]][rc[2]] = Empty
          /\ board'[rc[1]][rc[2]] = get_current_player(mode, current_player_index)
    /\ \A r \in RowIdx, c \in ColIdx :
          board[r][c] # Empty => board'[r][c] = board[r][c]

C13_CellsOnlyFill == C13_NewGameIsEmpty /\ [][C13_TurnFillsAtMostOneCell]_vars

\* the third turn of a new game has been accepted and the second player is
\* to move
C13_WitnessThirdTurnAccepted ==
    /\ ret = True
    /\ Pieces(board) = 3
    /\ current_player_index = 1
    /\ ~game_over

(***************************************************************************)
(* C14: order of the scan.  On a grid with one or more four-in-a-rows, of  *)
(* one player or of both, check_winner returns the owner of the run whose  *)
(* origin (its first cell: the leftmost of a horizontal run, the topmost   *)
(* of the others) comes first in row-major order, top row first and left   *)
(* to right; at one origin the runs are tried in the order horizontal,     *)
(* vertical, down-right, down-left.  On a grid with none it returns None.  *)
(***************************************************************************)
C14_Runs(b) ==
    {l \in Lines :
        /\ b[l[1][1]][l[1][2]] # Empty
        /\ \A i \in 1 .. (WIN - 1) :
              b[LineCell(l, i)[1]][LineCell(l, i)[2]] = b[l[1][1]][l[1][2]]}

C14_RowMajor(l) == l[1][1] * COLS + l[1][2]

C14_StepOrder == <<<<0, 1>>, <<1, 0>>, <<1, 1>>, <<1, 0 - 1>>>>

C14_FirstRunWins ==
    ret # NoCall =>
        LET runs == C14_Runs(board) IN
        IF runs = {} THEN ret = None
        ELSE \E l \in runs :
                /\ \A k \in runs : C14_RowMajor(l) <= C14_RowMajor(k)
                /\ ret = board[l[1][1]][l[1][2]]
                /\ \E d \in 1 .. WIN :
                      /\ l[2] = C14_StepOrder[d]
                      /\ \A e \in 1 .. (d - 1) : <<l[1], C14_StepOrder[e]>> \notin runs
                      /\ FirstDirection(board, l[1][1], l[1][2]) = d

\* both players own a run and the second player's starts first: check_winner
\* has returned the second player
C14_WitnessSecondPlayersRunFirst ==
    /\ ret = players(mode)[1]
    /\ \E l \in C14_Runs(board), k \in C14_Runs(board) :
          /\ board[l[1][1]][l[1][2]] = players(mode)[1]
          /\ board[k[1][1]][k[1][2]] = players(mode)[0]
          /\ C14_RowMajor(l) < C14_RowMajor(k)

(***************************************************************************)
(* C15: make_ai_move always moves.  Called on a board with a column that   *)
(* has room, whatever the provider does, it puts exactly one 'o' on the    *)
(* board and changes no other cell: in the lowest empty cell of the        *)
(* provider's column when that column is in 0 .. COLS-1 and has room, and  *)
(* otherwise (the provider raised, or its column is out of range or full)  *)
(* in the lowest empty cell of the first column that has room.             *)
(***************************************************************************)
C15_HasRoom(g, c) == \E r \in RowIdx : g[r][c] = Blank

C15_Target(g, result) ==
    IF ~result.raises /\ result.column \in ColIdx /\ C15_HasRoom(g, result.column)
    THEN result.column
    ELSE CHOOSE c \in ColIdx :
            C15_HasRoom(g, c) /\ \A d \in ColIdx : C15_HasRoom(g, d) => c <= d

C15_AIMovePlacesOneDisc ==
    \A result \in ProviderResults :
        (AIMoveWith(result) /\ \E c \in ColIdx : C15_HasRoom(board, c)) =>
            \E r \in RowIdx :
                /\ board[r][C15_Target(board, result)] = Blank
                /\ \A q \in (r + 1) .. (ROWS - 1) :
                      board[q][C15_Target(board, result)] # Blank
                /\ board' = [board EXCEPT ![r][C15_Target(board, result)] = O]

C15_AIAlwaysMoves == [][C15_AIMovePlacesOneDisc]_vars

\* the provider has raised on a board whose first column was full: the 'o'
\* went to a later column
C15_WitnessFallbackPastFullColumn ==
    /\ ret = ErrorFallback
    /\ \A r \in RowIdx : board[r][0] # Blank
    /\ board[0][0] = X
    /\ Discs(board) > ROWS * COLS - EndDrops

(***************************************************************************)
(* C16: the loop of play() ends.  With every prompt answered by a valid    *)
(* column and every provider call returning (any column, or an error),     *)
(* every run of play() reaches game_over; an AI turn whose column is       *)
(* rejected does not repeat for ever.                                      *)
(***************************************************************************)
C16_PlayTerminates == <>game_over

(***************************************************************************)
(* C17: the two win detectors agree.  On every board reached by legal      *)
(* alternating play that stops at the first win, checkwin on the board     *)
(* written with 'x', 'o' and ' ' for the first player, the second player   *)
(* and the empty cell reports the player check_winner reports, or both     *)
(* report no winner; for the ids p1 and a1 that rewriting is               *)
(* convert_board_from_baml_format.                                         *)
(***************************************************************************)
C17_ToGameboard(m, b) ==
    [r \in RowIdx |-> [c \in ColIdx |->
        IF b[r][c] = players(m)[0] THEN X
        ELSE IF b[r][c] = players(m)[1] THEN O
        ELSE Blank]]

C17_ToPlayer(m, v) ==
    IF v = X THEN players(m)[0] ELSE IF v = O THEN players(m)[1] ELSE None

C17_DetectorsAgree ==
    /\ C17_ToPlayer(mode, checkwin(C17_ToGameboard(mode, board))) = check_winner(board)
    /\ mode = "pva" => convert_board_from_baml_format(board) = C17_ToGameboard(mode, board)

\* the game has ended with a win of the second player, which checkwin reports
\* as 'o'
C17_WitnessBothReportSecondPlayer ==
    /\ game_over
    /\ check_winner(board) = players(mode)[1]
    /\ checkwin(C17_ToGameboard(mode, board)) = O

====
